---- MODULE Spec2Model ----
(***************************************************************************)
(* fast-gov-uk: the question-protocol (Wizard) engine.                     *)
(*                                                                         *)
(* State: the browser session store, the forms table of the database, the  *)
(* request being answered and the response given to it.  One action per    *)
(* HTTP handler.  Fields, Questions and the Wizard are built fresh for     *)
(* every request, so they appear as operators, not as variables.           *)
(***************************************************************************)
EXTENDS Integers, Sequences, FiniteSets, TLC

VARIABLES
    backends,   \* Wizard.backends: the configured chain (kinds, in order)
    session,    \* request.session: key -> entry
    db,         \* rows of the forms table, in insertion order
    req,        \* the request handled last
    resp,       \* the response to it
    calls,      \* Backend.process calls made for req, in call order
    the_field,  \* one Field object: its configuration, _value and error
    the_form,   \* one Form object and the position of Form.process in its chain
    inflight,   \* handlers suspended at an await: handler id -> its locals
    hops,       \* POSTs the client has sent while following redirects
    notify_client \* whether Fast has its notify_client (NOTIFY_API_KEY was set)

vars == <<backends, session, db, req, resp, calls, the_field, the_form, inflight, hops,
          notify_client>>

(***************************************************************************)
(* Bounds                                                                  *)
(***************************************************************************)
MaxRows == 1    \* rows the forms table may hold before POSTs stop

MaxPending == 3 \* notifications a session may hold before pages stop adding

(***************************************************************************)
(* Python values                                                           *)
(***************************************************************************)
None == "<None>"

EmptyMap == [k \in {} |-> None]

\* dict.get(k, default)
Get(d, k, default) == IF k \in DOMAIN d THEN d[k] ELSE default

\* dict.update(u), as a new map
Update(d, u) ==
    [k \in (DOMAIN d) \cup (DOMAIN u) |-> IF k \in DOMAIN u THEN u[k] ELSE d[k]]

\* `not value` is true of "" and of None
Truthy(value) == value # "" /\ value # None

\* seq[i] with Python's negative indices; ok is FALSE on IndexError
PyIndex(seq, i) ==
    IF i >= 0 /\ i < Len(seq) THEN [ok |-> TRUE, at |-> i + 1]
    ELSE IF i < 0 /\ i >= 0 - Len(seq) THEN [ok |-> TRUE, at |-> Len(seq) + i + 1]
    ELSE [ok |-> FALSE, at |-> 0]

(***************************************************************************)
(* The wizard of the test application                                      *)
(***************************************************************************)
RequiredError == "This field is required."

Permission ==
    [name |-> "permission", required |-> TRUE,
     choices |-> [yes |-> "Yes, answer the equality questions",
                  no |-> "No, skip the equality questions"]]

Health ==
    [name |-> "health", required |-> TRUE,
     choices |-> [yes |-> "Yes", no |-> "No", skip |-> "Prefer not to say"]]

Ability ==
    [name |-> "ability", required |-> FALSE,
     choices |-> [alot |-> "Yes, a lot", little |-> "Yes, a little",
                  not |-> "Not at all", skip |-> "Prefer not to say"]]

Sex ==
    [name |-> "sex", required |-> TRUE,
     choices |-> [female |-> "Female", male |-> "Male", skip |-> "Prefer not to say"]]

Gender ==
    [name |-> "gender", required |-> TRUE,
     choices |-> [yes |-> "Yes", no |-> "No", skip |-> "Prefer not to say"]]

\* Question(*args, predicates=...): form_fields flattens the Fieldset
questions ==
    << [fields |-> <<Permission>>, predicates |-> EmptyMap],
       [fields |-> <<Health>>, predicates |-> [permission |-> "yes"]],
       [fields |-> <<Ability>>, predicates |-> [permission |-> "yes", health |-> "yes"]],
       [fields |-> <<Sex, Gender>>, predicates |-> [permission |-> "yes"]] >>

N == Len(questions)

WizardName == "mini_equality"

\* Fast.questions: the registry filled by @fast.question
registry == {WizardName}

success_url == <<"/">>

(***************************************************************************)
(* Field, Radios                                                           *)
(***************************************************************************)
\* Field.__init__: no value, no error
field_init == [value |-> None, error |-> ""]

\* Field.value setter (Radios inherits it): the error is set, never cleared
set_value(field, st, value) ==
    [value |-> value,
     error |-> IF field.required /\ ~Truthy(value) THEN RequiredError ELSE st.error]

\* the raw value where the code returns the label
radios_clean_raw(field, st) ==
    IF st.value \in DOMAIN field.choices THEN st.value ELSE None

\* Radios.clean: the label of the radio whose value is the field's value
radios_clean(field, st) ==
    IF st.value \in DOMAIN field.choices THEN field.choices[st.value] ELSE None

(***************************************************************************)
(* Form, _Question                                                         *)
(***************************************************************************)
field_names(fields) == {fields[i].name : i \in 1..Len(fields)}

field_of(fields, name) == fields[CHOOSE i \in 1..Len(fields) : fields[i].name = name]

\* a bind that assigns also when the form was made without data
bind_always(fields, has_data, data) ==
    [n \in field_names(fields) |->
        set_value(field_of(fields, n), field_init, Get(data, n, ""))]

\* Form.bind: only when data is not None; an absent key binds ""
bind(fields, has_data, data) ==
    [n \in field_names(fields) |->
        IF has_data
        THEN set_value(field_of(fields, n), field_init, Get(data, n, ""))
        ELSE field_init]

\* Form.valid
valid(form) == \A n \in DOMAIN form : form[n].error = ""

\* _Question.clean: raw values and cleaned data of this question's fields
question_clean(fields, form) ==
    [values |-> [n \in DOMAIN form |-> form[n].value],
     data |-> [n \in DOMAIN form |-> radios_clean(field_of(fields, n), form[n])]]

(***************************************************************************)
(* Backends                                                                *)
(***************************************************************************)
\* session[name] replaced by this question's values and data instead of merged
question_backend_process_overwrite(sess, name, data) ==
    [ok |-> TRUE,
     session |-> Update(sess, [k \in {name} |-> [values |-> data.values, data |-> data.data]])]

\* QuestionBackend.process: merge into session[name]; ok is FALSE on KeyError
question_backend_process(sess, name, data) ==
    LET s1 == IF name \in DOMAIN sess THEN sess
              ELSE Update(sess, [k \in {name} |-> [values |-> EmptyMap, data |-> EmptyMap]])
        entry == s1[name]
    IN  IF "values" \in DOMAIN entry /\ "data" \in DOMAIN entry
        THEN [ok |-> TRUE,
              session |-> [s1 EXCEPT ![name] =
                              [values |-> Update(entry["values"], data.values),
                               data |-> Update(entry["data"], data.data)]]]
        ELSE [ok |-> FALSE, session |-> s1]

\* DBBackend.process: insert one record; SessionBackend.process: overwrite
\* session[name].  st is [session, db].
backend_process(kind, st, name, data) ==
    CASE kind = "DB" -> [st EXCEPT !.db = Append(@, [name |-> name, data |-> data])]
      [] kind = "Session" -> [st EXCEPT !.session = Update(@, [k \in {name} |-> data])]
      [] OTHER -> st

(***************************************************************************)
(* Wizard                                                                  *)
(***************************************************************************)
\* any() where the code has all()
predicates_met_any(predicates, data) ==
    DOMAIN predicates = {} \/ \E k \in DOMAIN predicates : Get(data, k, None) = predicates[k]

\* the predicate test of Wizard.next_step, on the raw values of the session
predicates_met(predicates, data) ==
    DOMAIN predicates = {} \/ \A k \in DOMAIN predicates : Get(data, k, None) = predicates[k]

\* a search that looks for the first applicable step from step 0 on
search_from_start(next_step, data) ==
    IF \E j \in 0..(Len(questions) - 1) : predicates_met(questions[j + 1].predicates, data)
    THEN CHOOSE j \in 0..(Len(questions) - 1) :
            /\ predicates_met(questions[j + 1].predicates, data)
            /\ \A k \in 0..(j - 1) : ~predicates_met(questions[k + 1].predicates, data)
    ELSE Len(questions)

\* the while loop of Wizard.next_step: the first step from next_step on whose
\* predicates are met, or Len(questions) when there is none
RECURSIVE search(_, _)
search(next_step, data) ==
    IF next_step < Len(questions)
    THEN IF predicates_met(questions[PyIndex(questions, next_step).at].predicates, data)
         THEN next_step
         ELSE search(next_step + 1, data)
    ELSE Len(questions)

\* the dict a backend was given, as the backend leaves it: APIBackend.process
\* sets two keys of it, the others only read it
backend_data(kind, name, data) ==
    IF kind = "API"
    THEN Update(data, [form_name |-> name, submitted_on |-> "<now>"])
    ELSE data

\* the dict Wizard.process hands over is session[name]["data"] itself, and
\* session[name] itself once SessionBackend has stored it there: what a backend
\* does to the dict shows in the session
write_through(sess, name, data, flat) ==
    IF flat THEN [sess EXCEPT ![name] = data]
    ELSE [sess EXCEPT ![name] = [@ EXCEPT !["data"] = data]]

\* Wizard.process: every backend in order on session[name]["data"], then the
\* success redirect
RECURSIVE run_backends(_, _, _, _, _)
run_backends(chain, i, st, name, data) ==
    IF i > Len(chain) THEN st
    ELSE LET done == backend_process(chain[i], st, name, data)
             left == backend_data(chain[i], name, data)
             flat == \E m \in 1..i : chain[m] = "Session"
         IN  run_backends(chain, i + 1,
                          IF left = data THEN done
                          ELSE [done EXCEPT !.session = write_through(@, name, left, flat)],
                          name, left)

\* the dict the i-th backend of the chain is given
RECURSIVE received(_, _, _, _)
received(chain, i, name, data) ==
    IF i = 1 THEN data
    ELSE backend_data(chain[i - 1], name, received(chain, i - 1, name, data))

\* the success redirect without the backend chain
wizard_process_unprocessed(chain, sess, rows, name) ==
    [resp |-> [kind |-> "redirect", location |-> success_url,
               question |-> 0, fields |-> EmptyMap],
     session |-> sess, db |-> rows, calls |-> <<>>]

wizard_process(chain, sess, rows, name) ==
    LET data == sess[name]["data"]
        st == run_backends(chain, 1, [session |-> sess, db |-> rows], name, data)
    IN  [resp |-> [kind |-> "redirect", location |-> success_url,
                   question |-> 0, fields |-> EmptyMap],
         session |-> st.session, db |-> st.db,
         calls |-> [i \in 1..Len(chain) |->
                      [backend |-> chain[i], name |-> name,
                       data |-> received(chain, i, name, data)]]]

\* the search starting at the current step
first_next_same(step) == step

\* the first step Wizard.next_step looks at
first_next(step) == step + 1

\* Wizard.next_step
next_step(chain, sess, rows, name, step, fields, form) ==
    LET saved == question_backend_process(sess, name, question_clean(fields, form))
    IN  IF ~saved.ok
        THEN [resp |-> [kind |-> "error", location |-> <<>>, question |-> 0, fields |-> EmptyMap],
              session |-> saved.session, db |-> rows, calls |-> <<>>]
        ELSE LET data == saved.session[name]["values"]
                 next == search(first_next(step), data)
             IN  IF next < Len(questions)
                 THEN [resp |-> [kind |-> "redirect",
                                 location |-> <<"wizards", name, ToString(next)>>,
                                 question |-> 0, fields |-> EmptyMap],
                       session |-> saved.session, db |-> rows, calls |-> <<>>]
                 ELSE wizard_process(chain, saved.session, rows, name)

(***************************************************************************)
(* Fast.process_questions                                                  *)
(***************************************************************************)
IntLiterals == (0 - (N + 1)) .. (N + 1)

\* int(s): ok is FALSE on ValueError
int(s) ==
    IF \E k \in IntLiterals : ToString(k) = s
    THEN [ok |-> TRUE, val |-> CHOOSE k \in IntLiterals : ToString(k) = s]
    ELSE [ok |-> FALSE, val |-> 0]

not_found == [kind |-> "notfound", location |-> <<>>, question |-> 0, fields |-> EmptyMap]

\* a step that is always taken for valid
step_valid_always(form) == TRUE

\* Wizard.step_valid
step_valid(form) == valid(form)

process_questions(chain, sess, rows, r) ==
    LET _step == int(IF r.step = "" THEN "0" ELSE r.step)
    IN  IF r.name \notin registry \/ ~_step.ok
        THEN [resp |-> not_found, session |-> sess, db |-> rows, calls |-> <<>>]
        ELSE LET q == PyIndex(questions, _step.val)
             IN  IF ~q.ok
                 THEN [resp |-> not_found, session |-> sess, db |-> rows, calls |-> <<>>]
                 ELSE LET fields == questions[q.at].fields
                          form == bind(fields, r.method = "POST", r.post)
                          page == [kind |-> "render", location |-> <<>>,
                                   question |-> q.at, fields |-> form]
                      IN  IF r.method = "GET"
                          THEN [resp |-> page, session |-> sess, db |-> rows, calls |-> <<>>]
                          ELSE IF step_valid(form)
                               THEN next_step(chain, sess, rows, r.name, _step.val, fields, form)
                               ELSE [resp |-> page, session |-> sess, db |-> rows, calls |-> <<>>]

(***************************************************************************)
(* Requests                                                                *)
(***************************************************************************)
StepTokens ==
    {ToString(k) : k \in 0..N} \cup {ToString(0 - 1), ToString(0 - (N + 1)), "", "abc"}

Bodies ==
    { EmptyMap,
      [permission |-> "yes"],
      [permission |-> "no"],
      [permission |-> "yes", health |-> "yes"],
      [permission |-> "yes", health |-> "no"],
      [ability |-> "alot"],
      [sex |-> "skip", gender |-> "skip"],
      [permission |-> "yes", health |-> "yes", ability |-> "alot",
       sex |-> "skip", gender |-> "skip"] }

no_request == [method |-> "", name |-> "", step |-> "", post |-> EmptyMap]

no_response == [kind |-> "", location |-> <<>>, question |-> 0, fields |-> EmptyMap]

\* no Field and no Form object exists outside a request
no_field == [op |-> "none"]

no_form == [pc |-> 0]

Init ==
    /\ backends = <<"DB">>
    /\ session = EmptyMap
    /\ db = <<>>
    /\ req = no_request
    /\ resp = no_response
    /\ calls = <<>>
    /\ the_field = no_field
    /\ the_form = no_form
    /\ inflight = EmptyMap
    /\ hops = 0
    /\ notify_client = TRUE

Handle(r) ==
    LET out == process_questions(backends, session, db, r)
    IN  /\ req' = r
        /\ resp' = out.resp
        /\ session' = out.session
        /\ db' = out.db
        /\ calls' = out.calls
        /\ UNCHANGED <<backends, the_field, the_form, inflight, hops, notify_client>>

\* the GET requests of /questions/{name}/{step}
GetRequests ==
    { [method |-> "GET", name |-> name, step |-> step, post |-> EmptyMap] :
        name \in registry, step \in StepTokens }

\* GET /questions/{name}/{step}
Get_questions == \E r \in GetRequests : Handle(r)

\* POST /questions/{name}/{step}
Post_questions ==
    /\ Len(db) < MaxRows
    /\ \E name \in registry, step \in StepTokens, post \in Bodies :
        Handle([method |-> "POST", name |-> name, step |-> step, post |-> post])

\* the requests of /questions/nope/0
UnknownRequests ==
    { [method |-> method, name |-> "nope", step |-> "0",
       post |-> IF method = "POST" THEN [permission |-> "yes"] ELSE EmptyMap] :
        method \in {"GET", "POST"} }

\* a request for a name that was never registered
Unknown_name == \E r \in UnknownRequests : Handle(r)

Next == Get_questions \/ Post_questions \/ Unknown_name

Spec == Init /\ [][Next]_vars

\* the wizard constructed without backends, which gives it [SessionBackend()],
\* and the wizard with an APIBackend before its DBBackend
WizardChains == { <<"Session">>, <<"API", "DB">> }

InitDefault ==
    /\ backends \in WizardChains
    /\ session = EmptyMap
    /\ db = <<>>
    /\ req = no_request
    /\ resp = no_response
    /\ calls = <<>>
    /\ the_field = no_field
    /\ the_form = no_form
    /\ inflight = EmptyMap
    /\ hops = 0
    /\ notify_client = TRUE

SpecDefault == InitDefault /\ [][Next]_vars

(***************************************************************************)
(* Vocabulary of the properties                                            *)
(***************************************************************************)
\* r addresses step i of the registered wizard, 0 <= i < N
InRange(r) == r.name \in registry /\ \E i \in 0..(N - 1) : ToString(i) = r.step

StepOf(r) == CHOOSE i \in 0..(N - 1) : ToString(i) = r.step

\* r names a step that is not in [0, N): a negative integer, an integer
\* >= N, or a token that is no integer
OutOfRange(r) == r.step # "" /\ ~(\E i \in 0..(N - 1) : ToString(i) = r.step)

\* the fields of Question[j], 0 <= j < N
QuestionFields(j) == {questions[j + 1].fields[k].name : k \in 1..Len(questions[j + 1].fields)}

RequiredFields(j) ==
    {questions[j + 1].fields[k].name :
        k \in {m \in 1..Len(questions[j + 1].fields) : questions[j + 1].fields[m].required}}

\* the raw value a POST binds to field f
PostedRaw(r, f) == IF f \in DOMAIN r.post THEN r.post[f] ELSE ""

\* the choice label of raw value v of field f, None when v is no choice
LabelOf(f, v) ==
    LET fld == CHOOSE x \in {Permission, Health, Ability, Sex, Gender} : x.name = f
    IN  IF v \in DOMAIN fld.choices THEN fld.choices[v] ELSE None

ValidPost(r) ==
    /\ r.method = "POST"
    /\ InRange(r)
    /\ \A f \in RequiredFields(StepOf(r)) : PostedRaw(r, f) # ""

InvalidPost(r) ==
    /\ r.method = "POST"
    /\ InRange(r)
    /\ \E f \in RequiredFields(StepOf(r)) : PostedRaw(r, f) = ""

\* Question[j] has no predicate, or the raw values meet all of it
Applicable(j, values) ==
    \A k \in DOMAIN questions[j + 1].predicates :
        k \in DOMAIN values /\ values[k] = questions[j + 1].predicates[k]

HasAccumulator(sess) ==
    WizardName \in DOMAIN sess /\ DOMAIN sess[WizardName] = {"values", "data"}

RedirectsToStep(rsp) == rsp.kind = "redirect" /\ Len(rsp.location) = 3

TargetStep(rsp) == CHOOSE j \in IntLiterals : ToString(j) = rsp.location[3]

Finished(rsp) == rsp.kind = "redirect" /\ rsp.location = success_url

(***************************************************************************)
(* C1  After a valid POST to step i the redirect goes to the smallest      *)
(* j, i < j < N, whose Question has no predicate or has all of it met by   *)
(* the raw values of the accumulator as merged by this POST; a predicate   *)
(* key that is absent from the values skips the step and is no error.      *)
(***************************************************************************)
C1_NextIsFirstApplicable ==
    ValidPost(req) =>
        /\ resp.kind = "redirect"
        /\ HasAccumulator(session)
        /\ LET i == StepOf(req)
               values == session[WizardName].values
           IN  /\ RedirectsToStep(resp) =>
                    LET j == TargetStep(resp)
                    IN  /\ i < j /\ j < N
                        /\ Applicable(j, values)
                        /\ \A k \in (i + 1)..(j - 1) : ~Applicable(k, values)
               /\ (\E j \in (i + 1)..(N - 1) : Applicable(j, values)) => RedirectsToStep(resp)

\* step 2 was skipped: health = "no" leaves its predicate unmet
C1_Witness ==
    /\ ValidPost(req)
    /\ StepOf(req) = 1
    /\ RedirectsToStep(resp)
    /\ TargetStep(resp) = 3
    /\ ~Applicable(2, session[WizardName].values)

(***************************************************************************)
(* C2  A valid POST to step i finishes the wizard exactly when no step     *)
(* j > i is applicable; then every backend of the chain is called once,    *)
(* with the whole accumulator.data, and the success redirect is returned.  *)
(* A POST that redirects to a step, and an invalid POST, call no backend.  *)
(***************************************************************************)
C2_ChainOnlyAtFinish ==
    [][ (req'.method = "POST" /\ InRange(req')) =>
          IF ValidPost(req')
             /\ ~(\E j \in (StepOf(req') + 1)..(N - 1) :
                     Applicable(j, session'[WizardName].values))
          THEN /\ Finished(resp')
               /\ calls' = [k \in 1..Len(backends) |->
                              [backend |-> backends[k], name |-> WizardName,
                               data |-> session'[WizardName].data]]
               /\ db' = Append(db, [name |-> WizardName, data |-> session'[WizardName].data])
          ELSE /\ ~Finished(resp')
               /\ calls' = <<>>
               /\ db' = db ]_vars

\* the wizard finished on a step that is not the last one, with answers of
\* more than one step in the data handed over
C2_Witness ==
    /\ ValidPost(req)
    /\ StepOf(req) < N - 1
    /\ Finished(resp)
    /\ Len(calls) = 1
    /\ Cardinality(DOMAIN calls[1].data) > 1
    /\ Len(db) = 1

(***************************************************************************)
(* C3  When the wizard finishes, the data handed to the backend chain      *)
(* holds no field of a Question whose predicate the final                  *)
(* accumulator.values leave unmet.                                         *)
(***************************************************************************)
C3_SkippedFieldsOmitted ==
    (Finished(resp) /\ calls # <<>>) =>
        \A c \in 1..Len(calls), j \in 0..(N - 1) :
            ~Applicable(j, session[WizardName].values) =>
                QuestionFields(j) \cap DOMAIN calls[c].data = {}

(***************************************************************************)
(* C4  An invalid POST to step i re-renders step i with the errors and     *)
(* changes nothing: the session is as before, there is no redirect and no  *)
(* backend runs.                                                           *)
(***************************************************************************)
C4_InvalidPostNoChange ==
    [][ InvalidPost(req') =>
          /\ resp'.kind = "render"
          /\ resp'.question = StepOf(req') + 1
          /\ \E f \in DOMAIN resp'.fields : resp'.fields[f].error # ""
          /\ session' = session
          /\ db' = db
          /\ calls' = <<>> ]_vars

\* an invalid POST answered while the accumulator holds earlier answers
C4_Witness ==
    /\ InvalidPost(req)
    /\ resp.kind = "render"
    /\ HasAccumulator(session)
    /\ DOMAIN session[WizardName].values # {}

(***************************************************************************)
(* C5  A valid POST to step i merges Question[i]: afterwards every field f *)
(* of Question[i] has accumulator.values[f] = the posted raw value and     *)
(* accumulator.data[f] = its cleaned value (the choice label), and every   *)
(* other key of the accumulator keeps the value it had.                    *)
(***************************************************************************)
C5_ValidPostMerges ==
    [][ ValidPost(req') =>
          LET own == QuestionFields(StepOf(req'))
              old == IF HasAccumulator(session) THEN session[WizardName]
                     ELSE [values |-> EmptyMap, data |-> EmptyMap]
              new == session'[WizardName]
          IN  /\ HasAccumulator(session')
              /\ DOMAIN new.values = own \cup DOMAIN old.values
              /\ DOMAIN new.data = own \cup DOMAIN old.data
              /\ \A f \in own :
                    /\ new.values[f] = PostedRaw(req', f)
                    /\ new.data[f] = LabelOf(f, PostedRaw(req', f))
              /\ \A f \in (DOMAIN old.values) \ own : new.values[f] = old.values[f]
              /\ \A f \in (DOMAIN old.data) \ own : new.data[f] = old.data[f] ]_vars

\* a valid POST merged into an accumulator that holds other steps' answers
C5_Witness ==
    /\ ValidPost(req)
    /\ HasAccumulator(session)
    /\ \E f \in DOMAIN session[WizardName].values : f \notin QuestionFields(StepOf(req))
    /\ \A f \in QuestionFields(StepOf(req)) :
          session[WizardName].data[f] \notin {None, session[WizardName].values[f]}

C7_GetPrePopulates ==
    (req.method = "GET" /\ InRange(req) /\ HasAccumulator(session)) =>
        /\ resp.kind = "render"
        /\ \A f \in QuestionFields(StepOf(req)) \cap DOMAIN session[WizardName].values :
              session[WizardName].values[f] # "" =>
                  resp.fields[f].value = session[WizardName].values[f]

(***************************************************************************)
(* C8  A request for an unknown name, or for a step outside [0, N) -       *)
(* negative, too large or no integer - is answered NotFound, shows no      *)
(* Question and changes nothing.                                           *)
(***************************************************************************)
C8_OutOfRangeNotFound ==
    [][ (req'.name \notin registry \/ OutOfRange(req')) =>
          /\ resp'.kind = "notfound"
          /\ resp'.question = 0
          /\ session' = session
          /\ db' = db ]_vars

(***************************************************************************)
(* C9  POST step 0 with {permission: "no"} redirects to the success URL.   *)
(* As claimed: the data persisted is {permission: "no"} and nothing else.  *)
(***************************************************************************)
C9_Post == [method |-> "POST", name |-> WizardName, step |-> "0", post |-> [permission |-> "no"]]

C9_PersistsRawNo ==
    [][ req' = C9_Post =>
          /\ Finished(resp')
          /\ db' = Append(db, [name |-> WizardName, data |-> [permission |-> "no"]]) ]_vars

(***************************************************************************)
(* C9 as amended: POST step 0 with {permission: "no"} redirects to the     *)
(* success URL and persists one record whose data maps permission to the   *)
(* cleaned value, the label "No, skip the equality questions"; in a        *)
(* session without earlier answers permission is its only key.             *)
(***************************************************************************)
C9_PersistsLabel ==
    [][ req' = C9_Post =>
          /\ Finished(resp')
          /\ Len(db') = Len(db) + 1
          /\ db'[Len(db')].name = WizardName
          /\ "permission" \in DOMAIN db'[Len(db')].data
          /\ db'[Len(db')].data["permission"] = "No, skip the equality questions"
          /\ (WizardName \notin DOMAIN session) =>
                DOMAIN db'[Len(db')].data = {"permission"} ]_vars

\* the record of a first POST {permission: "no"}
C9_Witness ==
    /\ req = C9_Post
    /\ Finished(resp)
    /\ Len(db) = 1
    /\ DOMAIN db[1].data = {"permission"}

(***************************************************************************)
(* C10  POST step 1 carrying {permission: "yes", health: "no"} is answered *)
(* with a redirect to step 3, and carrying {permission: "yes", health:     *)
(* "yes"} with a redirect to step 2.                                       *)
(***************************************************************************)
C10_Step1Redirects ==
    (req.method = "POST" /\ req.name = WizardName /\ req.step = "1") =>
        /\ req.post = [permission |-> "yes", health |-> "no"] =>
              (RedirectsToStep(resp) /\ TargetStep(resp) = 3)
        /\ req.post = [permission |-> "yes", health |-> "yes"] =>
              (RedirectsToStep(resp) /\ TargetStep(resp) = 2)

(***************************************************************************)
(* Field variants                                                          *)
(*                                                                         *)
(* A raw value is tagged with its Python type: a str is the sequence of    *)
(* its characters, a date is the list the form parser delivers or the      *)
(* tuple DateInput substitutes, an upload is an UploadFile.                *)
(***************************************************************************)
Str(cs) == [t |-> "str", s |-> cs]

NoneV == [t |-> "none"]

\* `not value`: None and "" are falsy; a 3-element list or tuple and an
\* UploadFile are truthy
py_not(v) == v.t = "none" \/ (v.t = "str" /\ v.s = <<>>)

Digits == {"0", "1", "2", "3", "4", "5", "6", "7", "8", "9"}

digit_val(c) == CHOOSE k \in 0..9 : ToString(k) = c

RECURSIVE digits_val(_)
digits_val(cs) ==
    IF cs = <<>> THEN 0
    ELSE 10 * digits_val(SubSeq(cs, 1, Len(cs) - 1)) + digit_val(cs[Len(cs)])

unsigned(cs) == IF cs # <<>> /\ cs[1] \in {"-", "+"} THEN Tail(cs) ELSE cs

\* int(str): ok is FALSE on ValueError
py_int(cs) ==
    LET body == unsigned(cs)
    IN  IF body # <<>> /\ \A i \in 1..Len(body) : body[i] \in Digits
        THEN [ok |-> TRUE,
              val |-> IF cs[1] = "-" THEN 0 - digits_val(body) ELSE digits_val(body)]
        ELSE [ok |-> FALSE, val |-> 0]

\* the characters of cs that are no decimal point
RECURSIVE without_dot(_)
without_dot(cs) ==
    IF cs = <<>> THEN <<>>
    ELSE (IF Head(cs) = "." THEN <<>> ELSE <<Head(cs)>>) \o without_dot(Tail(cs))

\* float(str) of a decimal literal: the digits and the number of decimals
py_float(cs) ==
    LET body == unsigned(cs)
        dots == {i \in 1..Len(body) : body[i] = "."}
        digs == without_dot(body)
    IN  IF digs # <<>> /\ Cardinality(dots) <= 1
           /\ \A i \in 1..Len(digs) : digs[i] \in Digits
        THEN [ok |-> TRUE,
              val |-> [digits |-> IF cs[1] = "-" THEN 0 - digits_val(digs) ELSE digits_val(digs),
                       decimals |-> IF dots = {} THEN 0
                                    ELSE Len(body) - (CHOOSE i \in dots : TRUE)]]
        ELSE [ok |-> FALSE, val |-> [digits |-> 0, decimals |-> 0]]

\* len(str.split()): the maximal runs of non-blank characters
word_count(cs) ==
    Cardinality({i \in 1..Len(cs) : cs[i] # " " /\ (i = 1 \/ cs[i - 1] = " ")})

\* "@" in parseaddr(value)[1], for a bare address without display name
has_at(cs) == \E i \in 1..Len(cs) : cs[i] = "@"

\* re.compile(regex).match(value) for the regex [0-9]+ : a match at the start
re_match(regex, cs) ==
    IF regex = "[0-9]+" THEN cs # <<>> /\ cs[1] \in Digits ELSE TRUE

days_in_month(month, year) ==
    IF month \in {4, 6, 9, 11} THEN 30
    ELSE IF month = 2
         THEN IF (year % 4 = 0 /\ year % 100 # 0) \/ year % 400 = 0 THEN 29 ELSE 28
         ELSE 31

\* date(day=int(day), month=int(month), year=int(year)): ok is FALSE on
\* ValueError
py_date(items) ==
    LET day == py_int(items[1])
        month == py_int(items[2])
        year == py_int(items[3])
    IN  IF day.ok /\ month.ok /\ year.ok
           /\ year.val >= 1 /\ year.val <= 9999
           /\ month.val >= 1 /\ month.val <= 12
           /\ day.val >= 1 /\ day.val <= days_in_month(month.val, year.val)
        THEN [ok |-> TRUE, day |-> day.val, month |-> month.val, year |-> year.val]
        ELSE [ok |-> FALSE, day |-> 0, month |-> 0, year |-> 0]

pad(n, width) ==
    LET str == ToString(n)
    IN  IF n < 10 /\ width >= 2
        THEN (IF width = 4 THEN "000" ELSE "0") \o str
        ELSE IF n < 100 /\ width = 4 THEN "00" \o str
        ELSE IF n < 1000 /\ width = 4 THEN "0" \o str
        ELSE str

\* date.isoformat()
isoformat(d) == pad(d.year, 4) \o "-" \o pad(d.month, 2) \o "-" \o pad(d.day, 2)

(***************************************************************************)
(* Field.value setters and Field.clean of every variant                    *)
(*                                                                         *)
(* cfg is the constructor's configuration, st the pair [value, error] of   *)
(* the object.  No setter ever resets error to "".                         *)
(***************************************************************************)
\* a setter that appends the message to the error it finds
Field_value_accumulate(cfg, st, v) ==
    [value |-> v,
     error |-> IF cfg.required /\ py_not(v) THEN st.error \o RequiredError ELSE st.error]

\* Field.value setter: TextInput, Textarea, Select, Radios, Checkboxes
Field_value(cfg, st, v) ==
    [value |-> v,
     error |-> IF cfg.required /\ py_not(v) THEN RequiredError ELSE st.error]

chars_error(cfg) == "Characters exceed limit of " \o ToString(cfg.maxchars) \o "."

words_error(cfg) == "Words exceed limit of " \o ToString(cfg.maxwords) \o "."

\* a setter whose first failing limit wins: the word limit is an elif
CharacterCount_value_first_wins(cfg, st, v) ==
    IF cfg.required /\ py_not(v)
    THEN [value |-> v, error |-> RequiredError]
    ELSE [value |-> v,
          error |-> IF cfg.maxchars # 0 /\ Len(v.s) > cfg.maxchars
                    THEN chars_error(cfg)
                    ELSE IF cfg.maxwords # 0 /\ word_count(v.s) > cfg.maxwords
                         THEN words_error(cfg) ELSE st.error]

\* CharacterCount.value setter; maxchars = 0 and maxwords = 0 stand for None
CharacterCount_value(cfg, st, v) ==
    IF cfg.required /\ py_not(v)
    THEN [value |-> v, error |-> RequiredError]
    ELSE LET after_chars == IF cfg.maxchars # 0 /\ Len(v.s) > cfg.maxchars
                            THEN chars_error(cfg) ELSE st.error
         IN  [value |-> v,
              error |-> IF cfg.maxwords # 0 /\ word_count(v.s) > cfg.maxwords
                        THEN words_error(cfg) ELSE after_chars]

\* EmailInput.value setter
EmailInput_value(cfg, st, v) ==
    [value |-> v,
     error |-> IF cfg.required
               THEN IF py_not(v) THEN RequiredError
                    ELSE IF ~has_at(v.s) THEN "Value is not an email." ELSE st.error
               ELSE st.error]

\* NumberInput.value setter
NumberInput_value(cfg, st, v) ==
    [value |-> v,
     error |-> IF cfg.required
               THEN IF py_not(v) THEN RequiredError
                    ELSE IF ~py_int(v.s).ok THEN "Value is not a number." ELSE st.error
               ELSE st.error]

\* DecimalInput.value setter
DecimalInput_value(cfg, st, v) ==
    [value |-> v,
     error |-> IF cfg.required
               THEN IF py_not(v) THEN RequiredError
                    ELSE IF ~py_float(v.s).ok THEN "Value is not a number." ELSE st.error
               ELSE st.error]

\* RegexInput.value setter
RegexInput_value(cfg, st, v) ==
    [value |-> v,
     error |-> IF cfg.required
               THEN IF py_not(v) THEN RequiredError
                    ELSE IF ~re_match(cfg.regex, v.s)
                         THEN "Value does not match the required format." ELSE st.error
               ELSE st.error]

\* DateInput.value setter: a falsy value is replaced by the tuple ("", "", "")
DateInput_value(cfg, st, v) ==
    LET _value == IF py_not(v) THEN [t |-> "tuple", items |-> << <<>>, <<>>, <<>> >>] ELSE v
        day == _value.items[1]
        month == _value.items[2]
        year == _value.items[3]
    IN  [value |-> _value,
         error |-> IF cfg.required
                   THEN IF day = <<>> \/ month = <<>> \/ year = <<>> THEN RequiredError
                        ELSE IF ~py_date(_value.items).ok THEN "Invalid values."
                        ELSE st.error
                   ELSE st.error]

\* FileUpload.valid_file: getattr(value, "filename", None) is not None
valid_file(v) == v.t = "file" /\ v.filename.t # "none"

\* a setter that tests `not value` as Field does, not valid_file
FileUpload_value_truthy(cfg, st, v) ==
    [value |-> v,
     error |-> IF cfg.required /\ py_not(v) THEN RequiredError ELSE st.error]

\* FileUpload.value setter
FileUpload_value(cfg, st, v) ==
    [value |-> v,
     error |-> IF cfg.required /\ ~valid_file(v) THEN RequiredError ELSE st.error]

\* the setter the class of the field defines
value_setter(cfg, st, v) ==
    CASE cfg.kind = "charcount" -> CharacterCount_value(cfg, st, v)
      [] cfg.kind = "email" -> EmailInput_value(cfg, st, v)
      [] cfg.kind = "number" -> NumberInput_value(cfg, st, v)
      [] cfg.kind = "decimal" -> DecimalInput_value(cfg, st, v)
      [] cfg.kind = "regex" -> RegexInput_value(cfg, st, v)
      [] cfg.kind = "date" -> DateInput_value(cfg, st, v)
      [] cfg.kind = "file" -> FileUpload_value(cfg, st, v)
      [] OTHER -> Field_value(cfg, st, v)

returned(v) == [raised |-> FALSE, value |-> v]

raised_error == [raised |-> TRUE, value |-> NoneV]

\* Field.clean
Field_clean(cfg, st) == IF py_not(st.value) THEN returned(NoneV) ELSE returned(st.value)

\* Select.clean, Radios.clean, Checkboxes.clean: the label of the choice
choice_clean(cfg, st) ==
    IF st.value.t = "str" /\ st.value.s \in DOMAIN cfg.choices
    THEN returned([t |-> "label", s |-> cfg.choices[st.value.s]])
    ELSE returned(NoneV)

\* NumberInput.clean
NumberInput_clean(cfg, st) ==
    IF py_not(st.value) THEN returned(NoneV)
    ELSE IF py_int(st.value.s).ok
         THEN returned([t |-> "int", v |-> py_int(st.value.s).val])
         ELSE raised_error

\* DecimalInput.clean
DecimalInput_clean(cfg, st) ==
    IF py_not(st.value) THEN returned(NoneV)
    ELSE IF py_float(st.value.s).ok
         THEN returned([t |-> "float", v |-> py_float(st.value.s).val])
         ELSE raised_error

\* DateInput.clean: only the list ["", "", ""] counts as not supplied; a value
\* that is no triple cannot be unpacked
DateInput_clean(cfg, st) ==
    IF st.value = [t |-> "list", items |-> << <<>>, <<>>, <<>> >>]
    THEN returned(NoneV)
    ELSE IF st.value.t \notin {"list", "tuple"} THEN raised_error
    ELSE IF py_date(st.value.items).ok
         THEN returned([t |-> "iso", s |-> isoformat(py_date(st.value.items))])
         ELSE raised_error

\* FileUpload.clean: the path the upload is written to
FileUpload_clean(cfg, st) ==
    IF py_not(st.value) \/ ~valid_file(st.value) THEN returned(NoneV)
    ELSE returned([t |-> "path", dir |-> "media", filename |-> st.value.filename.s])

\* the clean the class of the field defines
field_clean(cfg, st) ==
    CASE cfg.kind = "choice" -> choice_clean(cfg, st)
      [] cfg.kind = "number" -> NumberInput_clean(cfg, st)
      [] cfg.kind = "decimal" -> DecimalInput_clean(cfg, st)
      [] cfg.kind = "date" -> DateInput_clean(cfg, st)
      [] cfg.kind = "file" -> FileUpload_clean(cfg, st)
      [] OTHER -> Field_clean(cfg, st)

(***************************************************************************)
(* One Field object under assignments and cleans                           *)
(***************************************************************************)
YesNo == (<<"y", "e", "s">> :> "Yes") @@ (<<"n", "o">> :> "No")

\* constructor arguments: kind selects the class; maxchars = 10 as the
\* comments field of the profile form, with a word limit next to it
field_cfg(kind, required) ==
    [kind |-> kind, required |-> required,
     choices |-> IF kind = "choice" THEN YesNo ELSE << >>,
     maxchars |-> IF kind = "charcount" THEN 10 ELSE 0,
     maxwords |-> IF kind = "charcount" THEN 3 ELSE 0,
     regex |-> IF kind = "regex" THEN "[0-9]+" ELSE ".*"]

Kinds == {"text", "choice", "charcount", "email", "number", "decimal",
          "regex", "date", "file"}

FieldConfigs == {field_cfg(kind, required) : kind \in Kinds, required \in BOOLEAN}

List(items) == [t |-> "list", items |-> items]

File(filename) == [t |-> "file", filename |-> filename]

\* an UploadFile of an empty file input carries no filename
EmptyUpload == File(NoneV)

\* raw values a form post can hand to a field of this kind; "" is also what
\* Form.bind passes for a key the post does not carry
Raws(kind) ==
    {Str(<<>>)} \cup
    CASE kind = "text" -> {Str(<<"T", "e", "s", "t">>)}
      [] kind = "choice" -> {Str(<<"y", "e", "s">>), Str(<<"n", "o">>), Str(<<"z", "z">>)}
      [] kind = "charcount" ->
            {Str(<<"T", "e", "s", "t">>),
             Str(<<"a", " ", "b", " ", "c", " ", "d">>),
             Str(<<"a", "b", "c", "d", "e", "f", "g", "h", "i", "j", "k">>),
             Str(<<"a", " ", "b", " ", "c", " ", "d", " ", "e", " ", "f">>)}
      [] kind = "email" -> {Str(<<"t", "e", "s", "t">>), Str(<<"t", "@", "t">>)}
      [] kind = "number" -> {Str(<<"1", "2">>), Str(<<"A", "1">>), Str(<<"-", "5">>)}
      [] kind = "decimal" -> {Str(<<"1", ".", "5">>), Str(<<"1", "2">>), Str(<<"x">>)}
      [] kind = "regex" -> {Str(<<"1", "2">>), Str(<<"a", "1">>)}
      [] kind = "date" ->
            {List(<<d, m, y>>) : d \in {<<>>, <<"1", "0">>, <<"3", "1">>, <<"f", "o", "o">>},
                                 m \in {<<>>, <<"2">>, <<"1", "0">>},
                                 y \in {<<>>, <<"2", "0", "0", "0">>}}
      [] kind = "file" -> {EmptyUpload, File(Str(<<"p", ".", "p", "n", "g">>))}

not_cleaned == [raised |-> FALSE, value |-> [t |-> "unset"]]

\* Field.__init__: no value, no error
new_field(cfg) ==
    [cfg |-> cfg, value |-> NoneV, error |-> "", op |-> "new", raw |-> NoneV,
     before |-> [value |-> NoneV, error |-> ""], again |-> FALSE,
     cleaned |-> not_cleaned, media |-> {}]

\* the files FileUpload.clean has written under media/
written(f, result) ==
    IF result.value.t = "path" THEN f.media \cup {result.value.filename} ELSE f.media

InitField ==
    /\ backends = <<>>
    /\ session = EmptyMap
    /\ db = <<>>
    /\ req = no_request
    /\ resp = no_response
    /\ calls = <<>>
    /\ the_form = no_form
    /\ inflight = EmptyMap
    /\ hops = 0
    /\ notify_client = TRUE
    /\ the_field \in {new_field(cfg) : cfg \in FieldConfigs}

\* field.value = raw
Assign(raw) ==
    /\ LET st == value_setter(the_field.cfg, the_field, raw)
       IN  the_field' = [the_field EXCEPT !.value = st.value, !.error = st.error,
                                          !.op = "assign", !.raw = raw,
                                          !.before = [value |-> the_field.value,
                                                      error |-> the_field.error],
                                          !.again = (the_field.op = "assign"
                                                     /\ the_field.raw = raw),
                                          !.cleaned = not_cleaned]
    /\ UNCHANGED <<backends, session, db, req, resp, calls, the_form, inflight, hops, notify_client>>

AssignRaw == \E raw \in Raws(the_field.cfg.kind) : Assign(raw)

\* await field.clean, on a field a form has bound
Clean ==
    /\ the_field.op # "new"
    /\ LET result == field_clean(the_field.cfg, the_field)
       IN  the_field' = [the_field EXCEPT !.op = "clean", !.cleaned = result,
                                          !.media = written(the_field, result)]
    /\ UNCHANGED <<backends, session, db, req, resp, calls, the_form, inflight, hops, notify_client>>

NextField == AssignRaw \/ Clean

SpecField == InitField /\ [][NextField]_vars

(***************************************************************************)
(* Claims about one Field                                                  *)
(***************************************************************************)
Assigned == the_field.op = "assign"

\* the raw value is empty or absent; for the date, a component is missing
EmptyRaw ==
    \/ the_field.raw = Str(<<>>)
    \/ the_field.raw = EmptyUpload
    \/ the_field.raw.t = "list" /\ \E i \in 1..3 : the_field.raw.items[i] = <<>>

\* the raw value was not supplied at all: "", or the all-empty date triple,
\* or the upload of an empty file input
NotSupplied ==
    \/ the_field.raw = Str(<<>>)
    \/ the_field.raw = EmptyUpload
    \/ the_field.raw = List(<< <<>>, <<>>, <<>> >>)

\* the error a field of this configuration shows after raw as its only assignment
error_alone(cfg, raw) == value_setter(cfg, new_field(cfg), raw).error

\* a non-empty raw value breaks the rule of the variant
ViolatesRule ==
    LET kind == the_field.cfg.kind
        raw == the_field.raw
    IN  /\ ~EmptyRaw
        /\ \/ kind = "number" /\ ~py_int(raw.s).ok
           \/ kind = "decimal" /\ ~py_float(raw.s).ok
           \/ kind = "email" /\ ~has_at(raw.s)
           \/ kind = "regex" /\ ~re_match(the_field.cfg.regex, raw.s)
           \/ kind = "date" /\ ~py_date(raw.items).ok

\* the message of the variant's rule
VariantError ==
    CASE the_field.cfg.kind = "email" -> "Value is not an email."
      [] the_field.cfg.kind = "regex" -> "Value does not match the required format."
      [] the_field.cfg.kind = "date" -> "Invalid values."
      [] OTHER -> "Value is not a number."

\* C14: after any sequence of assignments to a Field, its error is the error
\* the last assigned value alone produces; a valid value after an invalid or
\* empty one leaves the error empty.
C14_ErrorFromLastValue ==
    Assigned => the_field.error = error_alone(the_field.cfg, the_field.raw)

C16_VariantCheckWhateverRequired ==
    (Assigned /\ ViolatesRule) => the_field.error = VariantError

\* C17: within one assignment the required check runs first and ends the
\* setter; among the further checks the last one to fail gives the error: a
\* character-count value over both limits ends with the word-limit error.
C17_LastRuleWins ==
    Assigned =>
        /\ (the_field.cfg.required /\ the_field.raw = Str(<<>>))
               => the_field.error = RequiredError
        /\ (/\ the_field.cfg.kind = "charcount"
            /\ Len(the_field.raw.s) > the_field.cfg.maxchars
            /\ word_count(the_field.raw.s) > the_field.cfg.maxwords)
               => the_field.error = words_error(the_field.cfg)

C17_Witness ==
    /\ Assigned
    /\ the_field.cfg.kind = "charcount"
    /\ Len(the_field.raw.s) > the_field.cfg.maxchars
    /\ word_count(the_field.raw.s) > the_field.cfg.maxwords
    /\ the_field.error = words_error(the_field.cfg)

\* C18: for every variant, clean of an optional field whose raw value was not
\* supplied returns None and does not raise.
C18_CleanNoneWhenNotSupplied ==
    (the_field.op = "clean" /\ ~the_field.cfg.required /\ NotSupplied)
        => (~the_field.cleaned.raised /\ the_field.cleaned.value = NoneV)

\* C20: assigning the same raw value two times in a row leaves the error and
\* the stored value the first of the two assignments left.
C20_AssignTwiceIdempotent ==
    (Assigned /\ the_field.again)
        => /\ the_field.error = the_field.before.error
           /\ the_field.value = the_field.before.value

C20_Witness ==
    /\ Assigned
    /\ the_field.again
    /\ the_field.cfg.required
    /\ the_field.raw = Str(<<>>)
    /\ the_field.error = RequiredError
    /\ the_field.before.error = RequiredError

(***************************************************************************)
(* C11  When a POST to the last step finishes the wizard, the persisted    *)
(* record holds the choice label of every answered field of the flow, as   *)
(* the POST of test_questions_valid carries them (permission, health,      *)
(* ability, sex, gender), not only those of the last step.                 *)
(***************************************************************************)
C11_RecordHoldsEveryAnswer ==
    (req.method = "POST" /\ req.name = WizardName /\ req.step = ToString(N - 1)
       /\ Finished(resp))
        => /\ Len(db) >= 1
           /\ \A f \in DOMAIN req.post :
                 /\ f \in DOMAIN db[Len(db)].data
                 /\ db[Len(db)].data[f] = LabelOf(f, req.post[f])

(***************************************************************************)
(* Form                                                                    *)
(*                                                                         *)
(* A form in the shape of the profile form: a root-level text field, a     *)
(* Fieldset holding a choice, an optional date and an optional character   *)
(* count.  fields maps each field name to the [value, error] of its        *)
(* object.                                                                 *)
(***************************************************************************)
FormName == "profile"

forms == {FormName}

FormItems ==
    << [kind |-> "field", name |-> "name", cfg |-> field_cfg("text", TRUE)],
       [kind |-> "fieldset",
        fields |-> << [kind |-> "field", name |-> "gender",
                       cfg |-> field_cfg("choice", TRUE)] >>],
       [kind |-> "field", name |-> "dob", cfg |-> field_cfg("date", FALSE)],
       [kind |-> "field", name |-> "comments", cfg |-> field_cfg("charcount", FALSE)] >>

\* Form.fields
RECURSIVE Form_fields(_)
Form_fields(items) ==
    IF items = <<>> THEN <<>>
    ELSE (IF Head(items).kind \in {"field", "fieldset"} THEN <<Head(items)>> ELSE <<>>)
         \o Form_fields(Tail(items))

\* the root-level fields first and the members of the Fieldsets after them
RECURSIVE flatten_fieldsets_last(_)
flatten_fieldsets_last(items) ==
    IF items = <<>> THEN <<>>
    ELSE IF Head(items).kind = "fieldset"
         THEN flatten_fieldsets_last(Tail(items)) \o Head(items).fields
         ELSE <<Head(items)>> \o flatten_fieldsets_last(Tail(items))

\* Form.form_fields: the fields of a Fieldset in the place of the Fieldset
RECURSIVE flatten(_)
flatten(items) ==
    IF items = <<>> THEN <<>>
    ELSE (IF Head(items).kind = "fieldset" THEN Head(items).fields ELSE <<Head(items)>>)
         \o flatten(Tail(items))

form_fields(items) == flatten(Form_fields(items))

form_field_names(items) == {form_fields(items)[i].name : i \in 1..Len(form_fields(items))}

cfg_of(items, n) ==
    (CHOOSE f \in {form_fields(items)[i] : i \in 1..Len(form_fields(items))} : f.name = n).cfg

\* the Field objects as the form factory constructs them
Form_new(items) == [n \in form_field_names(items) |-> [value |-> NoneV, error |-> ""]]

\* a bind that leaves a field alone when the data has no key for it
Form_bind_present_only(items, fields, has_data, data) ==
    IF ~has_data THEN fields
    ELSE [n \in DOMAIN fields |->
            IF n \in DOMAIN data
            THEN value_setter(cfg_of(items, n), fields[n], data[n])
            ELSE fields[n]]

\* Form.bind
Form_bind(items, fields, has_data, data) ==
    IF ~has_data THEN fields
    ELSE [n \in DOMAIN fields |->
            value_setter(cfg_of(items, n), fields[n], Get(data, n, Str(<<>>)))]

\* Form.errors
Form_errors(items, fields) ==
    [n \in {m \in form_field_names(items) : fields[m].error # ""} |-> fields[n].error]

\* a valid that looks at the root-level fields only
Form_valid_root_only(items, fields) ==
    \A i \in 1..Len(items) : items[i].kind = "field" => fields[items[i].name].error = ""

\* Form.valid
Form_valid(items, fields) ==
    \A i \in 1..Len(form_fields(items)) : fields[form_fields(items)[i].name].error = ""

\* Form.clean: the dict of every field's clean; a clean that raises ends it
Form_clean(items, fields) ==
    [raised |-> \E n \in DOMAIN fields : field_clean(cfg_of(items, n), fields[n]).raised,
     data |-> [n \in DOMAIN fields |-> field_clean(cfg_of(items, n), fields[n]).value]]

\* the field cleans one evaluation of Form.clean awaits, in the order it
\* awaits them: those of flat from the i-th on, up to one that raises
RECURSIVE clean_order(_, _, _)
clean_order(flat, fields, i) ==
    IF i > Len(flat) THEN <<>>
    ELSE IF field_clean(flat[i].cfg, fields[flat[i].name]).raised THEN <<flat[i].name>>
    ELSE <<flat[i].name>> \o clean_order(flat, fields, i + 1)

Form_clean_order(items, fields) == clean_order(form_fields(items), fields, 1)

\* self.clean is a property: every backend.process call gets a coroutine of
\* its own and awaits it, so Form.clean is evaluated once per call made;
\* order is the field cleans one evaluation awaits
clean_evaluations(order, made) == [m \in 1..Len(made) |-> order]

\* backend.process(req, name, self.clean) for i-th and later backends; the
\* backend awaits the data first: clean is what every evaluation of
\* Form.clean yields, the fields being the same for each; failing names the
\* backends whose own work raises in this request
call(backend, name, data) == [backend |-> backend, name |-> name, data |-> data]

RECURSIVE Form_backends(_, _, _, _, _, _, _, _)
Form_backends(chain, i, st, name, clean, order, failing, log) ==
    IF i > Len(chain)
    THEN [raised |-> FALSE, error |-> "", st |-> st, calls |-> log,
          cleans |-> clean_evaluations(order, log)]
    ELSE IF clean.raised
         THEN [raised |-> TRUE, error |-> "ValueError", st |-> st,
               calls |-> Append(log, call(chain[i], name, EmptyMap)),
               cleans |-> clean_evaluations(order, Append(log, chain[i]))]
    ELSE IF chain[i] \in failing
         THEN [raised |-> TRUE, error |-> "HTTPError", st |-> st,
               calls |-> Append(log, call(chain[i], name, clean.data)),
               cleans |-> clean_evaluations(order, Append(log, chain[i]))]
    ELSE Form_backends(chain, i + 1, backend_process(chain[i], st, name, clean.data),
                       name, clean, order, failing,
                       Append(log, call(chain[i], name, clean.data)))

\* a process that logs the error of a backend and goes on with the next
RECURSIVE Form_backends_swallow(_, _, _, _, _, _, _, _)
Form_backends_swallow(chain, i, st, name, clean, order, failing, log) ==
    IF i > Len(chain)
    THEN [raised |-> FALSE, error |-> "", st |-> st, calls |-> log,
          cleans |-> clean_evaluations(order, log)]
    ELSE IF clean.raised \/ chain[i] \in failing
         THEN Form_backends_swallow(chain, i + 1, st, name, clean, order, failing,
                                    Append(log, call(chain[i], name, EmptyMap)))
    ELSE Form_backends_swallow(chain, i + 1,
                               backend_process(chain[i], st, name, clean.data),
                               name, clean, order, failing,
                               Append(log, call(chain[i], name, clean.data)))

Form_process_swallow(chain, st, name, items, fields, failing) ==
    Form_backends_swallow(chain, 1, st, name, Form_clean(items, fields),
                          Form_clean_order(items, fields), failing, <<>>)

\* Form.process up to its return: the caller gets self.success when raised
\* is FALSE and the exception otherwise
Form_process(chain, st, name, items, fields, failing) ==
    Form_backends(chain, 1, st, name, Form_clean(items, fields),
                  Form_clean_order(items, fields), failing, <<>>)

(***************************************************************************)
(* Fast.process_form                                                       *)
(***************************************************************************)
form_page(items, fields) ==
    [kind |-> "form", location |-> <<>>, errors |-> Form_errors(items, fields), error |-> ""]

form_not_found == [kind |-> "not_found", location |-> <<>>, errors |-> EmptyMap, error |-> ""]

\* Form.success
Form_success == [kind |-> "redirect", location |-> success_url, errors |-> EmptyMap, error |-> ""]

form_raised(error) == [kind |-> "error", location |-> <<>>, errors |-> EmptyMap, error |-> error]

\* the Form object a request leaves behind
form_object(has_data, fields, cleans) ==
    [pc |-> 1, bound |-> has_data, fields |-> fields, cleans |-> cleans]

\* what the handler returns for what Form.process gave it
form_processed(fields, out) ==
    [resp |-> IF out.raised THEN form_raised(out.error) ELSE Form_success,
     session |-> out.st.session, db |-> out.st.db,
     calls |-> out.calls, form |-> form_object(TRUE, fields, out.cleans)]

\* the handler once it has made the form: fields are those of the form,
\* bound to the post when the request is a POST
form_made(chain, sess, rows, r, fields) ==
    IF r.method = "POST" /\ Form_valid(FormItems, fields)
    THEN form_processed(fields,
                        Form_process(chain, [session |-> sess, db |-> rows],
                                     r.name, FormItems, fields, r.failing))
    ELSE [resp |-> form_page(FormItems, fields), session |-> sess, db |-> rows,
          calls |-> <<>>, form |-> form_object(r.method = "POST", fields, <<>>)]

\* the handler of /form/{name}: r is [method, name, post, failing]
process_form(chain, sess, rows, r) ==
    IF r.name \notin forms
    THEN [resp |-> form_not_found, session |-> sess, db |-> rows, calls |-> <<>>,
          form |-> no_form]
    ELSE form_made(chain, sess, rows, r,
                   Form_bind(FormItems, Form_new(FormItems), r.method = "POST",
                             IF r.method = "POST" THEN r.post ELSE EmptyMap))

(***************************************************************************)
(* Requests to the form                                                    *)
(***************************************************************************)
\* backend lists a Form is constructed with; the last is the default
Chains == { <<"DB", "Email">>, <<"Email", "DB">>, <<"DB", "Email", "Session">>,
            <<"Session">> }

\* the backends whose work raises in a request
Failings == SUBSET {"DB", "Email"}

a_name == Str(<<"T", "e", "s", "t">>)

a_date == List(<< <<"1", "0">>, <<"1", "0">>, <<"2", "0", "0", "0">> >>)

FormBodies ==
    { EmptyMap,
      [name |-> a_name, gender |-> Str(<<"y", "e", "s">>), dob |-> a_date,
       comments |-> Str(<<"T", "e", "s", "t">>)],
      [name |-> a_name, gender |-> Str(<<"n", "o">>), dob |-> a_date],
      [name |-> a_name, gender |-> Str(<<"y", "e", "s">>)],
      [name |-> a_name, gender |-> Str(<<"y", "e", "s">>),
       dob |-> List(<< <<>>, <<>>, <<>> >>), comments |-> Str(<<>>)],
      [name |-> Str(<<>>), gender |-> Str(<<"y", "e", "s">>), dob |-> a_date],
      [gender |-> Str(<<"y", "e", "s">>), dob |-> a_date],
      [name |-> a_name, dob |-> a_date],
      [name |-> a_name, gender |-> Str(<<"y", "e", "s">>), dob |-> a_date,
       comments |-> Str(<<"a", "b", "c", "d", "e", "f", "g", "h", "i", "j", "k">>)] }

InitForm ==
    /\ backends \in Chains
    /\ session = EmptyMap
    /\ db = <<>>
    /\ req = [method |-> "", name |-> "", post |-> EmptyMap, failing |-> {}]
    /\ resp = no_response
    /\ calls = <<>>
    /\ the_field = no_field
    /\ the_form = no_form
    /\ inflight = EmptyMap
    /\ hops = 0
    /\ notify_client = TRUE

HandleForm(r) ==
    \E out \in {process_form(backends, session, db, r)} :
        /\ req' = r
        /\ resp' = out.resp
        /\ session' = out.session
        /\ db' = out.db
        /\ calls' = out.calls
        /\ the_form' = out.form
        /\ UNCHANGED <<backends, the_field, inflight, hops, notify_client>>

\* the GET requests of /form/{name}
GetFormRequests ==
    { [method |-> "GET", name |-> name, post |-> EmptyMap, failing |-> {}] : name \in forms }

\* GET /form/{name}
Get_form == \E r \in GetFormRequests : HandleForm(r)

\* POST /form/{name}
Post_form ==
    /\ Len(db) < MaxRows
    /\ \E name \in forms, post \in FormBodies, failing \in Failings :
        HandleForm([method |-> "POST", name |-> name, post |-> post, failing |-> failing])

\* the requests of /form/nope
UnknownFormRequests ==
    { [method |-> method, name |-> "nope", post |-> EmptyMap, failing |-> {}] :
        method \in {"GET", "POST"} }

\* a request for a form that was never registered
Unknown_form == \E r \in UnknownFormRequests : HandleForm(r)

NextForm == Get_form \/ Post_form \/ Unknown_form

SpecForm == InitForm /\ [][NextForm]_vars

(***************************************************************************)
(* Claims about the Form                                                   *)
(***************************************************************************)
\* a POST that bound a valid form, so that Form.process ran
Processed(r, rsp) ==
    r.method = "POST" /\ r.name \in forms /\ rsp.kind \in {"redirect", "error"}

\* the position of the first backend of the chain that raises in request r
\* with the bound fields, Len(chain) + 1 when none does
FirstRaising(chain, r, fields) ==
    IF Form_clean(FormItems, fields).raised THEN 1
    ELSE IF \E k \in 1..Len(chain) : chain[k] \in r.failing
         THEN CHOOSE k \in 1..Len(chain) :
                 chain[k] \in r.failing /\ \A m \in 1..(k - 1) : chain[m] \notin r.failing
         ELSE Len(chain) + 1

\* the database backends among the first k of the chain
DBsBefore(chain, k) == Cardinality({m \in 1..(k - 1) : chain[m] = "DB"})

\* C12: Form.process runs the backends in list order; the first one to raise
\* ends the chain and the caller gets the error, not the success redirect;
\* what the backends before it did stays: the row of [DB, Email] is in the
\* database when Email raises.
C12_ChainInOrderNoRollback ==
    [][ Processed(req', resp') =>
          LET k == FirstRaising(backends, req', the_form'.fields)
              last == IF k > Len(backends) THEN Len(backends) ELSE k
          IN  /\ Len(calls') = last
              /\ \A m \in 1..last : calls'[m].backend = backends[m]
              /\ (k <= Len(backends)) <=> (resp'.kind = "error")
              /\ (k > Len(backends)) <=> (resp' = Form_success)
              /\ Len(db') = Len(db) + DBsBefore(backends, last + 1)
                              - (IF k <= Len(backends) /\ backends[k] = "DB" THEN 1 ELSE 0)
              /\ SubSeq(db', 1, Len(db)) = db ]_vars

\* [DB, Email], Email raised: the caller has the error and the row is there
C12_Witness ==
    /\ backends = <<"DB", "Email">>
    /\ Processed(req, resp)
    /\ req.failing = {"Email"}
    /\ resp.kind = "error"
    /\ Len(calls) = 2
    /\ Len(db) = 1
    /\ db[1].name = FormName

AllFieldNames == {"name", "gender", "dob", "comments"}

\* C13: Form.valid is true iff every reachable field, those inside Fieldsets
\* too, has an empty error; it is false iff Form.errors is non-empty;
\* Form.errors maps exactly the names of the fields with an error to it.
C13_ValidIffNoErrors ==
    the_form # no_form =>
        LET fields == the_form.fields
            errors == Form_errors(FormItems, fields)
        IN  /\ Form_valid(FormItems, fields) <=> \A n \in AllFieldNames : fields[n].error = ""
            /\ ~Form_valid(FormItems, fields) <=> errors # EmptyMap
            /\ DOMAIN errors = {n \in AllFieldNames : fields[n].error # ""}
            /\ \A n \in DOMAIN errors : errors[n] = fields[n].error

\* the only error sits on the field inside the Fieldset
C13_Witness ==
    /\ the_form # no_form
    /\ the_form.bound
    /\ Form_errors(FormItems, the_form.fields) = [gender |-> RequiredError]
    /\ ~Form_valid(FormItems, the_form.fields)
    /\ resp.kind = "form"

\* data with "" put in for every key of the form it lacks
Filled(data) == [n \in AllFieldNames |-> Get(data, n, Str(<<>>))]

\* C19: binding data without a field's key gives the field the error and the
\* form the validity that binding "" for that key gives; {} marks every
\* required field as required; a form made with no data is not validated.
C19_AbsentIsEmpty ==
    the_form # no_form =>
        IF the_form.bound
        THEN LET filled == Form_bind(FormItems, Form_new(FormItems), TRUE, Filled(req.post))
             IN  /\ \A n \in AllFieldNames : the_form.fields[n].error = filled[n].error
                 /\ Form_valid(FormItems, the_form.fields) <=> Form_valid(FormItems, filled)
                 /\ req.post = EmptyMap =>
                       \A n \in AllFieldNames :
                           cfg_of(FormItems, n).required
                               => the_form.fields[n].error = RequiredError
        ELSE /\ \A n \in AllFieldNames : the_form.fields[n].error = ""
             /\ resp.errors = EmptyMap

\* the empty map was bound
C19_Witness ==
    /\ the_form # no_form
    /\ the_form.bound
    /\ req.post = EmptyMap
    /\ resp.kind = "form"
    /\ resp.errors = [name |-> RequiredError, gender |-> RequiredError]

\* the fields of the form as its definition declares them, the member of the
\* Fieldset where the Fieldset stands
DeclaredOrder == <<"name", "gender", "dob", "comments">>

\* C21: one evaluation of Form.clean awaits the clean of every reachable field
\* once, in declaration order, Fieldset members in the place of the Fieldset;
\* an evaluation a field's clean ends by raising has got as far as that field.
C21_CleanInDeclarationOrder ==
    (the_form # no_form /\ Processed(req, resp)) =>
        \A e \in 1..Len(the_form.cleans) :
            LET order == the_form.cleans[e]
            IN  /\ order = SubSeq(DeclaredOrder, 1, Len(order))
                /\ ~Form_clean(FormItems, the_form.fields).raised => order = DeclaredOrder

C21_Witness ==
    /\ the_form # no_form
    /\ Processed(req, resp)
    /\ resp = Form_success
    /\ Len(the_form.cleans) >= 1
    /\ the_form.cleans[1] = DeclaredOrder

\* C28: during one Form.process call that returns the success redirect the
\* clean of each field runs exactly once, however many backends the Form has.
C28_CleanOncePerProcess ==
    (the_form # no_form /\ Processed(req, resp) /\ resp = Form_success) =>
        \A n \in AllFieldNames :
            Cardinality({<<e, i>> \in (1..Len(the_form.cleans)) \X (1..Len(DeclaredOrder)) :
                            i <= Len(the_form.cleans[e]) /\ the_form.cleans[e][i] = n}) = 1

(***************************************************************************)
(* Notifications                                                           *)
(***************************************************************************)
\* Fast.add_notification
add_notification(sess, content, success) ==
    LET notifications == Get(sess, "notifications", <<>>)
    IN  Update(sess, [k \in {"notifications"} |->
                        Append(notifications,
                               [title |-> IF success THEN "Success" ELSE "Important",
                                content |-> content])])

\* ds.Notification(n["content"], title=n["title"], success=(n["title"] == "Success"))
Notification(n) == [content |-> n.content, title |-> n.title, success |-> (n.title = "Success")]

\* a handler that renders the banners and leaves the list in the session
notifications_keep(sess) ==
    LET notifications == Get(sess, "notifications", <<>>)
    IN  [banners |-> [i \in 1..Len(notifications) |-> Notification(notifications[i])],
         session |-> sess]

\* Fast.notifications: the banners, and the session after the pop
notifications(sess) ==
    LET pending == Get(sess, "notifications", <<>>)
    IN  [banners |-> [i \in 1..Len(pending) |-> Notification(pending[i])],
         session |-> [k \in DOMAIN sess \ {"notifications"} |-> sess[k]]]

InitNotify ==
    /\ backends = <<>>
    /\ session = EmptyMap
    /\ db = <<>>
    /\ req = [method |-> "", path |-> ""]
    /\ resp = [kind |-> "", banners |-> <<>>]
    /\ calls = <<>>
    /\ the_field = no_field
    /\ the_form = no_form
    /\ inflight = EmptyMap
    /\ hops = 0
    /\ notify_client = TRUE

\* GET of a page whose handler calls fast.add_notification, as home does
Get_page ==
    /\ Len(Get(session, "notifications", <<>>)) < MaxPending
    /\ \E content \in {"Test", "Saved"}, success \in BOOLEAN :
        /\ session' = add_notification(session, content, success)
        /\ req' = [method |-> "GET", path |-> "/", content |-> content, success |-> success]
        /\ resp' = [kind |-> "page", banners |-> <<>>]
    /\ UNCHANGED <<backends, db, calls, the_field, the_form, inflight, hops, notify_client>>

\* GET /notifications
Get_notifications ==
    /\ LET out == notifications(session)
       IN  /\ session' = out.session
           /\ resp' = [kind |-> "banners", banners |-> out.banners]
    /\ req' = [method |-> "GET", path |-> "/notifications"]
    /\ UNCHANGED <<backends, db, calls, the_field, the_form, inflight, hops, notify_client>>

NextNotify == Get_page \/ Get_notifications

SpecNotify == InitNotify /\ [][NextNotify]_vars

\* the notifications the session holds, oldest first
Pending(sess) == IF "notifications" \in DOMAIN sess THEN sess["notifications"] ELSE <<>>

\* C25: add_notification appends to the session's list in call order; a
\* request to the notifications endpoint renders every pending notification
\* in that order and removes the list, so the request after it renders none.
C25_DeliveredOnce ==
    [][ /\ req'.path = "/" =>
              /\ Len(Pending(session')) = Len(Pending(session)) + 1
              /\ SubSeq(Pending(session'), 1, Len(Pending(session))) = Pending(session)
              /\ Pending(session')[Len(Pending(session'))].content = req'.content
              /\ Pending(session')[Len(Pending(session'))].title
                    = (IF req'.success THEN "Success" ELSE "Important")
        /\ req'.path = "/notifications" =>
              /\ Len(resp'.banners) = Len(Pending(session))
              /\ \A i \in 1..Len(Pending(session)) :
                    /\ resp'.banners[i].content = Pending(session)[i].content
                    /\ resp'.banners[i].title = Pending(session)[i].title
              /\ "notifications" \notin DOMAIN session'
        /\ (req.path = "/notifications" /\ req'.path = "/notifications") =>
              resp'.banners = <<>> ]_vars

\* two notifications were added and one request rendered both, in order
C25_Witness ==
    /\ req.path = "/notifications"
    /\ Len(resp.banners) = 2
    /\ resp.banners[1].content = "Test"
    /\ resp.banners[2].content = "Saved"
    /\ "notifications" \notin DOMAIN session

(***************************************************************************)
(* Claims about the session entry of a wizard                              *)
(***************************************************************************)
\* C22: the Session backend merges the clean data into the session entry of
\* the name: after its write the entry holds the cleaned value of every field
\* it was given, and what the entry held before is still in it.
C22_SessionWriteMerges ==
    [][ (\E i \in 1..Len(calls') : calls'[i].backend = "Session") =>
          LET given == calls'[CHOOSE i \in 1..Len(calls') : calls'[i].backend = "Session"].data
          IN  /\ WizardName \in DOMAIN session'
              /\ \A f \in DOMAIN given :
                    f \in DOMAIN session'[WizardName] /\ session'[WizardName][f] = given[f]
              /\ WizardName \in DOMAIN session =>
                    \A k \in DOMAIN session[WizardName] : k \in DOMAIN session'[WizardName] ]_vars

\* C26: the session entry of a wizard is absent or a record of exactly the
\* maps values and data, with equal key sets, also after the wizard has
\* finished and its backends have run, whatever the backend list.
C26_AccumulatorShape ==
    WizardName \in DOMAIN session =>
        /\ HasAccumulator(session)
        /\ DOMAIN session[WizardName]["values"] = DOMAIN session[WizardName]["data"]

\* the data map of the accumulator when the backend chain started
DataHandedOver == calls[1].data

\* C27: running the wizard's backend chain leaves accumulator.data as it was:
\* every backend is given the map the first one was given, and the session
\* holds that map afterwards.
C27_ChainLeavesDataUnchanged ==
    (Finished(resp) /\ calls # <<>>) =>
        /\ \A i \in 1..Len(calls) : calls[i].data = DataHandedOver
        /\ HasAccumulator(session) => session[WizardName]["data"] = DataHandedOver

(***************************************************************************)
(* A client that follows the wizard's redirects                            *)
(***************************************************************************)
\* the bodies that are a valid POST to step j
ValidBodies(j) == {b \in Bodies : \A f \in RequiredFields(j) : Get(b, f, "") # ""}

\* the handler of /questions/{name}/{step} answering the h-th POST of a run
HandleRun(r, h) ==
    LET out == process_questions(backends, session, db, r)
    IN  /\ req' = r
        /\ resp' = out.resp
        /\ session' = out.session
        /\ db' = out.db
        /\ calls' = out.calls
        /\ hops' = h
        /\ UNCHANGED <<backends, the_field, the_form, inflight, notify_client>>

\* the client enters the wizard with a valid POST to any step
Enter ==
    /\ Len(db) < MaxRows
    /\ \E i \in 0..(N - 1) : \E post \in ValidBodies(i) :
        HandleRun([method |-> "POST", name |-> WizardName, step |-> ToString(i),
                   post |-> post], 1)

\* the client answers the redirect to step j with a valid POST to step j
Follow ==
    /\ hops >= 1
    /\ hops <= N
    /\ RedirectsToStep(resp)
    /\ TargetStep(resp) \in 0..(N - 1)
    /\ \E post \in ValidBodies(TargetStep(resp)) :
        HandleRun([method |-> "POST", name |-> WizardName,
                   step |-> ToString(TargetStep(resp)), post |-> post], hops + 1)

NextRun == Enter \/ Follow

SpecRun == Init /\ [][NextRun]_vars

\* the questions the while loop of next_step looks at, starting at first
Examined(first, data) ==
    IF search(first, data) < N THEN search(first, data) - first + 1 ELSE N - first

\* C30: a wizard terminates: from a POST to any step, answering each redirect
\* with a valid POST to its target, the wizard is finished after at most N
\* POSTs, every POST before that redirecting to a later step; the search of
\* one POST looks at no more than N - 1 questions.
C30_WizardTerminates ==
    hops >= 1 =>
        /\ hops <= N
        /\ hops <= StepOf(req) + 1
        /\ \/ Finished(resp) /\ calls # <<>>
           \/ /\ RedirectsToStep(resp)
              /\ TargetStep(resp) > StepOf(req)
              /\ TargetStep(resp) < N
              /\ ValidBodies(TargetStep(resp)) # {}
        /\ StepOf(req) = N - 1 => Finished(resp)
        /\ Examined(first_next(StepOf(req)), session[WizardName]["values"]) <= N - 1

\* the longest run: steps 0, 1, 2, 3, finished by the fourth POST
C30_Witness ==
    /\ hops = N
    /\ Finished(resp)
    /\ calls # <<>>
    /\ StepOf(req) = N - 1

(***************************************************************************)
(* The form and the wizard of one application, one session                 *)
(***************************************************************************)
AppSteps == {"0", "1", "3"}

AppBodies ==
    { [permission |-> "yes"],
      [permission |-> "yes", health |-> "no"],
      [sex |-> "skip", gender |-> "skip"] }

AppFormBodies ==
    { EmptyMap,
      [name |-> a_name, gender |-> Str(<<"y", "e", "s">>), dob |-> a_date,
       comments |-> Str(<<"T", "e", "s", "t">>)] }

InitApp ==
    /\ backends \in { <<"DB">>, <<"Session">> }
    /\ session = EmptyMap
    /\ db = <<>>
    /\ req = no_request
    /\ resp = no_response
    /\ calls = <<>>
    /\ the_field = no_field
    /\ the_form = no_form
    /\ inflight = EmptyMap
    /\ hops = 0
    /\ notify_client = TRUE

\* POST /questions/{name}/{step}
App_post_questions ==
    /\ Len(db) < MaxRows
    /\ \E step \in AppSteps, post \in AppBodies :
        Handle([method |-> "POST", name |-> WizardName, step |-> step, post |-> post])

\* POST /form/{name}
App_post_form ==
    /\ Len(db) < MaxRows
    /\ \E post \in AppFormBodies :
        HandleForm([method |-> "POST", name |-> FormName, post |-> post, failing |-> {}])

NextApp ==
    \/ Get_questions
    \/ Get_form
    \/ App_post_questions
    \/ App_post_form

SpecApp == InitApp /\ [][NextApp]_vars

\* C29: a GET of a form or of a wizard step leaves the session and the
\* database as they are, invokes no backend and binds no data: the page it
\* renders carries no validation error.
C29_GetIsReadOnly ==
    [][ req'.method = "GET" =>
          /\ session' = session
          /\ db' = db
          /\ calls' = <<>>
          /\ resp'.kind = "form" =>
                /\ resp'.errors = EmptyMap
                /\ ~the_form'.bound
                /\ \A n \in DOMAIN the_form'.fields : the_form'.fields[n].value = NoneV
          /\ resp'.kind = "render" =>
                \A n \in DOMAIN resp'.fields : resp'.fields[n].error = "" ]_vars

\* a wizard step was rendered for a session that holds an accumulator and
\* an entry of the form
C29_Witness ==
    /\ req.method = "GET"
    /\ resp.kind = "render"
    /\ HasAccumulator(session)
    /\ FormName \in DOMAIN session

(***************************************************************************)
(* Two POSTs of one session in flight                                      *)
(*                                                                         *)
(* A handler can be suspended where the code awaits: QuestionBackend       *)
(* awaits the clean data before it touches the session, and next_step      *)
(* awaits Wizard.process.  Between two awaits a handler runs alone.  Both  *)
(* handlers work on the one session object of the session identifier.      *)
(***************************************************************************)
Handlers == {1, 2}

\* a merge that keeps what the accumulator already holds for a key
resume_next_step_keep_first(sess, name, step, fields, form) ==
    LET own == question_clean(fields, form)
        s1 == IF name \in DOMAIN sess THEN sess
              ELSE Update(sess, [k \in {name} |-> [values |-> EmptyMap, data |-> EmptyMap]])
        kept == [s1 EXCEPT ![name] = [values |-> Update(own.values, s1[name]["values"]),
                                       data |-> Update(own.data, s1[name]["data"])]]
    IN  [ok |-> TRUE, session |-> kept,
         next |-> search(first_next(step), kept[name]["values"])]

\* QuestionBackend.process from the point its await returns, and next_step up
\* to the end of its while loop: no await in between
resume_next_step(sess, name, step, fields, form) ==
    LET saved == question_backend_process(sess, name, question_clean(fields, form))
    IN  [ok |-> saved.ok, session |-> saved.session,
         next |-> IF saved.ok
                  THEN search(first_next(step), saved.session[name]["values"])
                  ELSE Len(questions)]

\* the session after an earlier POST of step 0
AnsweredPermission ==
    process_questions(<<"DB">>, EmptyMap, <<>>,
                      [method |-> "POST", name |-> WizardName, step |-> "0",
                       post |-> [permission |-> "yes"]]).session

InitRace ==
    /\ backends = <<"DB">>
    /\ session \in {EmptyMap, AnsweredPermission}
    /\ db = <<>>
    /\ req = no_request
    /\ resp = no_response
    /\ calls = <<>>
    /\ the_field = no_field
    /\ the_form = no_form
    /\ inflight = EmptyMap
    /\ hops = 0
    /\ notify_client = TRUE

\* process_questions up to the await of the clean data: the question is built
\* and bound, and it is valid
Arrive(h) ==
    /\ h \notin DOMAIN inflight
    /\ Len(db) < MaxRows
    /\ \E i \in 0..(N - 1) : \E post \in ValidBodies(i) :
        /\ \A g \in DOMAIN inflight : inflight[g].step = i
        /\ inflight' = Update(inflight,
              [k \in {h} |->
                 [pc |-> "clean", step |-> i,
                  r |-> [method |-> "POST", name |-> WizardName, step |-> ToString(i),
                         post |-> post],
                  form |-> bind(questions[i + 1].fields, TRUE, post),
                  resp |-> no_response, order |-> 0]])
    /\ UNCHANGED <<backends, session, db, req, resp, calls, the_field, the_form, hops, notify_client>>

\* the handler resumes: merge, search, and the redirect when a step is found
Merge(h) ==
    /\ h \in DOMAIN inflight
    /\ inflight[h].pc = "clean"
    /\ LET me == inflight[h]
           out == resume_next_step(session, WizardName, me.step,
                                   questions[me.step + 1].fields, me.form)
           merged == Cardinality({g \in DOMAIN inflight : inflight[g].order > 0})
           answer == IF ~out.ok
                     THEN [kind |-> "error", location |-> <<>>, question |-> 0,
                           fields |-> EmptyMap]
                     ELSE [kind |-> "redirect",
                           location |-> <<"wizards", WizardName, ToString(out.next)>>,
                           question |-> 0, fields |-> EmptyMap]
       IN  /\ session' = out.session
           /\ IF out.ok /\ out.next >= Len(questions)
              THEN /\ inflight' = [inflight EXCEPT ![h].pc = "process",
                                                   ![h].order = merged + 1]
                   /\ UNCHANGED <<req, resp, notify_client>>
              ELSE /\ inflight' = [inflight EXCEPT ![h].pc = "done",
                                                   ![h].order = merged + 1,
                                                   ![h].resp = answer]
                   /\ req' = me.r
                   /\ resp' = answer
    /\ UNCHANGED <<backends, db, calls, the_field, the_form, hops, notify_client>>

\* await self.process(req): the backend chain and the success redirect
Process(h) ==
    /\ h \in DOMAIN inflight
    /\ inflight[h].pc = "process"
    /\ LET out == wizard_process(backends, session, db, WizardName)
       IN  /\ session' = out.session
           /\ db' = out.db
           /\ calls' = out.calls
           /\ resp' = out.resp
           /\ req' = inflight[h].r
           /\ inflight' = [inflight EXCEPT ![h].pc = "done", ![h].resp = out.resp]
    /\ UNCHANGED <<backends, the_field, the_form, hops, notify_client>>

NextRace == \E h \in Handlers : Arrive(h) \/ Merge(h) \/ Process(h)

SpecRace == InitRace /\ [][NextRace]_vars

BothDone == DOMAIN inflight = Handlers /\ \A h \in Handlers : inflight[h].pc = "done"

\* the handler whose merge came second
LastWriter == CHOOSE h \in Handlers : inflight[h].order = 2

\* C24: two valid POSTs of one session to one step, in flight together, both
\* complete without error, and the accumulator ends with the fields of the
\* step holding what the POST that merged last carried, raw value and
\* cleaned value from that same POST.
C24_LastWriterWins ==
    BothDone =>
        /\ \A h \in Handlers : inflight[h].resp.kind = "redirect"
        /\ HasAccumulator(session)
        /\ \A f \in QuestionFields(inflight[LastWriter].step) :
              /\ session[WizardName]["values"][f] = PostedRaw(inflight[LastWriter].r, f)
              /\ session[WizardName]["data"][f]
                    = LabelOf(f, PostedRaw(inflight[LastWriter].r, f))

\* the two POSTs carried different answers and the second handler to arrive
\* was not the last to merge
C24_Witness ==
    /\ BothDone
    /\ inflight[1].r.post = [permission |-> "yes"]
    /\ inflight[2].r.post = [permission |-> "no"]
    /\ LastWriter = 1
    /\ session[WizardName]["values"]["permission"] = "yes"

(***************************************************************************)
(* Construction and first use of a backend                                 *)
(*                                                                         *)
(* backends holds the backend object a construction produced, req the      *)
(* call and resp what the caller got: the object or the exception.         *)
(***************************************************************************)
Omitted == "<omitted>"

\* what the application may pass for url, username or password
Credentials == {Omitted, None, "", "test"}

\* the argument is there and is a non-empty string
Supplied(arg) == arg \notin {Omitted, None, ""}

\* APIBackend.__init__: the three parameters have no default and are stored
\* as given
APIBackend_init(url, username, password) ==
    IF Omitted \in {url, username, password}
    THEN [raised |-> TRUE, error |-> "TypeError", object |-> <<>>]
    ELSE [raised |-> FALSE, error |-> "",
          object |-> <<[kind |-> "API", url |-> url, username |-> username,
                        password |-> password]>>]

\* Fast.notify: the notifier, or ValueError when no client was configured
Fast_notify(has_client) ==
    IF has_client THEN [raised |-> FALSE, error |-> "", notifier |-> "_notifier"]
    ELSE [raised |-> TRUE, error |-> "ValueError", notifier |-> None]

\* EmailBackend.__init__: notify has no default and is stored as given
EmailBackend_init(notify) ==
    IF notify = Omitted
    THEN [raised |-> TRUE, error |-> "TypeError", object |-> <<>>]
    ELSE [raised |-> FALSE, error |-> "", object |-> <<[kind |-> "Email", notify |-> notify]>>]

\* the first process call of a constructed backend: the HTTP client refuses
\* None credentials and a URL that is None or empty; None is not callable
first_process(backend) ==
    IF backend.kind = "API"
    THEN IF backend.url \in {None, ""} THEN [raised |-> TRUE, error |-> "HTTPError"]
         ELSE IF None \in {backend.username, backend.password}
         THEN [raised |-> TRUE, error |-> "TypeError"]
         ELSE [raised |-> FALSE, error |-> ""]
    ELSE IF backend.notify = None THEN [raised |-> TRUE, error |-> "TypeError"]
         ELSE [raised |-> FALSE, error |-> ""]

InitBackend ==
    /\ backends = <<>>
    /\ session = EmptyMap
    /\ db = <<>>
    /\ req = [op |-> "", args |-> <<>>]
    /\ resp = [raised |-> FALSE, error |-> ""]
    /\ calls = <<>>
    /\ the_field = no_field
    /\ the_form = no_form
    /\ inflight = EmptyMap
    /\ hops = 0
    /\ notify_client \in BOOLEAN

\* forms.APIBackend(url=..., username=..., password=...)
Construct_api ==
    /\ \E url \in Credentials, username \in Credentials, password \in Credentials :
        LET out == APIBackend_init(url, username, password)
        IN  /\ req' = [op |-> "APIBackend", args |-> <<url, username, password>>]
            /\ resp' = [raised |-> out.raised, error |-> out.error]
            /\ backends' = out.object
    /\ calls' = <<>>
    /\ UNCHANGED <<session, db, the_field, the_form, inflight, hops, notify_client>>

\* forms.EmailBackend(notify=fast.notify(template_id, email))
Construct_email ==
    /\ LET notifier == Fast_notify(notify_client)
           out == EmailBackend_init(notifier.notifier)
       IN  /\ req' = [op |-> "EmailBackend", args |-> <<"fast.notify">>]
           /\ resp' = IF notifier.raised
                      THEN [raised |-> TRUE, error |-> notifier.error]
                      ELSE [raised |-> out.raised, error |-> out.error]
           /\ backends' = IF notifier.raised THEN <<>> ELSE out.object
    /\ calls' = <<>>
    /\ UNCHANGED <<session, db, the_field, the_form, inflight, hops, notify_client>>

\* forms.EmailBackend(notify=None), forms.EmailBackend()
Construct_email_bare ==
    /\ \E notify \in {Omitted, None} :
        LET out == EmailBackend_init(notify)
        IN  /\ req' = [op |-> "EmailBackend", args |-> <<notify>>]
            /\ resp' = [raised |-> out.raised, error |-> out.error]
            /\ backends' = out.object
    /\ calls' = <<>>
    /\ UNCHANGED <<session, db, the_field, the_form, inflight, hops, notify_client>>

\* the first backend.process call of the constructed backend
First_process ==
    /\ backends # <<>>
    /\ calls = <<>>
    /\ LET out == first_process(backends[1])
       IN  /\ req' = [op |-> "process", args |-> req.args]
           /\ resp' = [raised |-> out.raised, error |-> out.error]
    /\ calls' = <<[backend |-> backends[1].kind, name |-> FormName, data |-> EmptyMap]>>
    /\ UNCHANGED <<backends, session, db, the_field, the_form, inflight, hops, notify_client>>

NextBackend == Construct_api \/ Construct_email \/ Construct_email_bare \/ First_process

SpecBackend == InitBackend /\ [][NextBackend]_vars

\* a credential, the URL or the notification client is missing
MissingCredential ==
    \/ req.op \in {"APIBackend", "process"} /\ \E i \in 1..Len(req.args) : ~Supplied(req.args[i])
    \/ req.op = "EmailBackend" /\ (req.args = <<"fast.notify">> => ~notify_client)
    \/ req.op = "process" /\ req.args = <<None>>

\* C23: a backend constructed without its credentials, URL or notification
\* client fails at construction, never at its first process call.
C23_FailsAtConstruction ==
    /\ (req.op \in {"APIBackend", "EmailBackend"} /\ MissingCredential)
           => (resp.raised /\ backends = <<>>)
    /\ (req.op = "process" /\ MissingCredential) => ~resp.raised

====
